---------------------------- MODULE Spec2Model ----------------------------
(***************************************************************************)
(* Model of sqlmesh/core/constants.py: the daemon classification           *)
(* is_daemon_process() and the module-level computation of                 *)
(* MAX_FORK_WORKERS that runs when the module is imported.                  *)
(*                                                                         *)
(* The function reads sys.stdout through the global name sys.  The module  *)
(* has no "import sys" of its own; the model takes the name to resolve to  *)
(* the interpreter's sys module, the object whose stdout attribute the     *)
(* tests in tests/core/test_constants.py patch.  With the name unbound     *)
(* every call would end in NameError at the first debugging print.         *)
(***************************************************************************)
EXTENDS Integers, Sequences, FiniteSets, TLC

(***************************************************************************)
(* Bounds of the model.                                                    *)
(***************************************************************************)
MaxPid == 3      \* process, parent and session ids range up to MaxPid
MaxLen == 2      \* longest value of the MAX_FORK_WORKERS environment variable
MaxCpus == 2     \* largest size of the CPU affinity set

(***************************************************************************)
(* The platform's init process id, compared with os.getppid().             *)
(***************************************************************************)
INIT_PID == 1

VARIABLES
    ppid,              \* os.getppid()
    sid,               \* os.getsid(0)
    pid,               \* os.getpid()
    stdout,            \* what sys.stdout is bound to
    has_fork,          \* hasattr(os, "fork")
    affinity,          \* 0: os has no sched_getaffinity, else len(os.sched_getaffinity(0))
    environ,           \* os.getenv("MAX_FORK_WORKERS")
    pc,                \* "unloaded", "loaded" (import finished), "failed" (import raised)
    MAX_FORK_WORKERS,  \* the module attribute
    init_call,         \* outcome of the is_daemon_process() call of the import
    last_call,         \* outcome of the most recent is_daemon_process() call
    error              \* exception that ended the import, "" if none

vars == <<ppid, sid, pid, stdout, has_fork, affinity, environ, pc,
          MAX_FORK_WORKERS, init_call, last_call, error>>

env == <<ppid, sid, pid, stdout, has_fork, affinity, environ>>

(***************************************************************************)
(* Python values.                                                          *)
(***************************************************************************)
Unbound == [tag |-> "unbound", n |-> 0]    \* the name is not defined
PyNone == [tag |-> "none", n |-> 0]
PyInt(n) == [tag |-> "int", n |-> n]

NotCalled == [kind |-> "not_called", val |-> FALSE, exc |-> ""]
Return(b) == [kind |-> "return", val |-> b, exc |-> ""]
Raise(e) == [kind |-> "raise", val |-> FALSE, exc |-> e]

(***************************************************************************)
(* The objects sys.stdout can be bound to.                                 *)
(*   tty            fileno() gives a descriptor of a terminal              *)
(*   pipe, file     fileno() gives a descriptor that is not a terminal     *)
(*   bad_fd         fileno() gives -1, for which os.isatty answers False   *)
(*   isatty_raises  fileno() gives a descriptor, os.isatty raises OSError  *)
(*   fileno_raises  fileno() raises OSError                                *)
(*   no_fileno      an object without a fileno attribute                   *)
(*   none           sys.stdout is None                                     *)
(***************************************************************************)
StdoutKinds == {"tty", "pipe", "file", "bad_fd", "isatty_raises",
                "fileno_raises", "no_fileno", "none"}

\* hasattr(sys.stdout, "fileno")
hasattr_fileno(s) == s \notin {"no_fileno", "none"}

\* sys.stdout.fileno() raises OSError
fileno_raises(s) == s = "fileno_raises"

\* os.isatty(sys.stdout.fileno()) raises OSError
isatty_raises(s) == s = "isatty_raises"

\* os.isatty(sys.stdout.fileno())
os_isatty(s) == s = "tty"

(***************************************************************************)
(* The debugging prints at the head of is_daemon_process: TRUE when they   *)
(* raise.  type(), __class__, dir() and hasattr() succeed on every object, *)
(* None included; sys.stdout.fileno() is called outside any try block.     *)
(***************************************************************************)
debug_prints_raise(s) == hasattr_fileno(s) /\ fileno_raises(s)

\* variant that drops the session-leader test
ancestry_check_ppid_only(pp, sd, pd) == pp = INIT_PID

\* os.getppid() == 1 or os.getsid(0) == os.getpid()
ancestry_check(pp, sd, pd) == pp = INIT_PID \/ sd = pd

\* variant whose final return is True
terminal_check_default_true(s) ==
    IF hasattr_fileno(s)
    THEN IF fileno_raises(s) \/ isatty_raises(s)
         THEN TRUE
         ELSE ~ os_isatty(s)
    ELSE TRUE

\* variant that returns os.isatty(...) without the "not"
terminal_check_no_negation(s) ==
    IF hasattr_fileno(s)
    THEN IF fileno_raises(s) \/ isatty_raises(s)
         THEN TRUE
         ELSE os_isatty(s)
    ELSE FALSE

\* the terminal check and the final return
terminal_check(s) ==
    IF hasattr_fileno(s)
    THEN IF fileno_raises(s) \/ isatty_raises(s)
         THEN TRUE                       \* except OSError: return True
         ELSE ~ os_isatty(s)
    ELSE FALSE

is_daemon_process(pp, sd, pd, s) ==
    IF debug_prints_raise(s) THEN Raise("OSError")
    ELSE IF ancestry_check(pp, sd, pd) THEN Return(TRUE)
    ELSE Return(terminal_check(s))


(***************************************************************************)
(* os.getenv("MAX_FORK_WORKERS"): None when the variable is not set, else  *)
(* its value, a string, here a sequence of characters of Chars.            *)
(***************************************************************************)
Chars == {"-", "0", "1", "2", "x", " "}

Strings == UNION {[1..k -> Chars] : k \in 0..MaxLen}

EnvUnset == [set |-> FALSE, val |-> <<>>]
EnvSet(str) == [set |-> TRUE, val |-> str]

EnvValues == {EnvUnset} \cup {EnvSet(str) : str \in Strings}

(***************************************************************************)
(* int(x) of Python, base 10.  int(None) raises TypeError.  For a string:  *)
(* surrounding whitespace is dropped, one sign may lead, then come one or  *)
(* more digits, single underscores allowed between digits; anything else   *)
(* raises ValueError.                                                      *)
(***************************************************************************)
Digits == {"0", "1", "2", "3", "4", "5", "6", "7", "8", "9"}

DigitVal(c) ==
    CASE c = "0" -> 0 [] c = "1" -> 1 [] c = "2" -> 2 [] c = "3" -> 3
      [] c = "4" -> 4 [] c = "5" -> 5 [] c = "6" -> 6 [] c = "7" -> 7
      [] c = "8" -> 8 [] c = "9" -> 9

IsSpace(c) == c = " "

RECURSIVE LStrip(_)
LStrip(str) ==
    IF str # <<>> /\ IsSpace(Head(str)) THEN LStrip(Tail(str)) ELSE str

RECURSIVE RStrip(_)
RStrip(str) ==
    IF str # <<>> /\ IsSpace(str[Len(str)])
    THEN RStrip(SubSeq(str, 1, Len(str) - 1))
    ELSE str

Strip(str) == LStrip(RStrip(str))

\* the digits part of a literal: digits, single underscores between digits
ValidDigits(str) ==
    /\ Len(str) > 0
    /\ \A i \in 1..Len(str) :
          \/ str[i] \in Digits
          \/ /\ str[i] = "_"
             /\ 1 < i /\ i < Len(str)
             /\ str[i - 1] \in Digits /\ str[i + 1] \in Digits

RECURSIVE DecimalValue(_, _)
DecimalValue(str, acc) ==
    IF str = <<>> THEN acc
    ELSE IF Head(str) = "_" THEN DecimalValue(Tail(str), acc)
    ELSE DecimalValue(Tail(str), 10 * acc + DigitVal(Head(str)))

py_int(v) ==
    IF ~ v.set THEN [exc |-> "TypeError", n |-> 0]
    ELSE LET body == Strip(v.val)
             signed == body # <<>> /\ Head(body) \in {"-", "+"}
             digs == IF signed THEN Tail(body) ELSE body
         IN  IF ~ ValidDigits(digs) THEN [exc |-> "ValueError", n |-> 0]
             ELSE IF signed /\ Head(body) = "-"
                  THEN [exc |-> "", n |-> 0 - DecimalValue(digs, 0)]
                  ELSE [exc |-> "", n |-> DecimalValue(digs, 0)]

(***************************************************************************)
(* The module-level statement that binds MAX_FORK_WORKERS.  daemon is the  *)
(* outcome of the is_daemon_process() call, NotCalled when hasattr(os,     *)
(* "fork") is false and the "and" never evaluates it.  aff is 0 when os    *)
(* has no sched_getaffinity, else the size of the affinity set.            *)
(***************************************************************************)
\* variant whose condition is hasattr(os, "fork") alone
max_fork_workers_ignores_daemon(fork, daemon, ev, aff) ==
    IF fork /\ daemon.kind = "raise"
    THEN [value |-> Unbound, error |-> daemon.exc]
    ELSE IF fork
    THEN LET r == py_int(ev)
         IN  IF r.exc = "" THEN [value |-> PyInt(r.n), error |-> ""]
             ELSE IF r.exc = "TypeError"
             THEN [value |-> IF aff > 0 THEN PyInt(aff) ELSE PyNone,
                   error |-> ""]
             ELSE [value |-> Unbound, error |-> r.exc]
    ELSE [value |-> PyInt(1), error |-> ""]

\* variant that takes the affinity count whenever the platform has one
max_fork_workers_prefers_affinity(fork, daemon, ev, aff) ==
    IF fork /\ daemon.kind = "raise"
    THEN [value |-> Unbound, error |-> daemon.exc]
    ELSE IF fork /\ ~ daemon.val
    THEN LET r == py_int(ev)
         IN  IF aff > 0 THEN [value |-> PyInt(aff), error |-> ""]
             ELSE IF r.exc = "" THEN [value |-> PyInt(r.n), error |-> ""]
             ELSE IF r.exc = "TypeError"
             THEN [value |-> PyNone, error |-> ""]
             ELSE [value |-> Unbound, error |-> r.exc]
    ELSE [value |-> PyInt(1), error |-> ""]

max_fork_workers(fork, daemon, ev, aff) ==
    IF fork /\ daemon.kind = "raise"
    THEN [value |-> Unbound, error |-> daemon.exc]
    ELSE IF fork /\ ~ daemon.val
    THEN LET r == py_int(ev)
         IN  IF r.exc = "" THEN [value |-> PyInt(r.n), error |-> ""]
             ELSE IF r.exc = "TypeError"      \* except TypeError
             THEN [value |-> IF aff > 0 THEN PyInt(aff) ELSE PyNone,
                   error |-> ""]
             ELSE [value |-> Unbound, error |-> r.exc]
    ELSE [value |-> PyInt(1), error |-> ""]

(***************************************************************************)
(* The state before the module is imported: any process identity, any      *)
(* standard output, any platform, any value of the environment variable.   *)
(***************************************************************************)
Init ==
    /\ ppid \in 0..MaxPid
    /\ sid \in 1..MaxPid
    /\ pid \in 1..MaxPid
    /\ stdout \in StdoutKinds
    /\ has_fork \in BOOLEAN
    /\ affinity \in 0..MaxCpus
    /\ environ \in EnvValues
    /\ pc = "unloaded"
    /\ MAX_FORK_WORKERS = Unbound
    /\ init_call = NotCalled
    /\ last_call = NotCalled
    /\ error = ""

(***************************************************************************)
(* Import of the module: the if statement at module level.                 *)
(***************************************************************************)
ModuleInit ==
    /\ pc = "unloaded"
    /\ LET daemon == IF has_fork
                     THEN is_daemon_process(ppid, sid, pid, stdout)
                     ELSE NotCalled
           r == max_fork_workers(has_fork, daemon, environ, affinity)
       IN  /\ init_call' = daemon
           /\ last_call' = daemon
           /\ MAX_FORK_WORKERS' = r.value
           /\ error' = r.error
           /\ pc' = IF r.error = "" THEN "loaded" ELSE "failed"
    /\ UNCHANGED env

(***************************************************************************)
(* A caller of the imported module calls constants.is_daemon_process().    *)
(***************************************************************************)
CallIsDaemonProcess ==
    /\ pc = "loaded"
    /\ last_call' = is_daemon_process(ppid, sid, pid, stdout)
    /\ UNCHANGED <<env, pc, MAX_FORK_WORKERS, init_call, error>>

Next == ModuleInit \/ CallIsDaemonProcess

Spec == Init /\ [][Next]_vars

TypeOK ==
    /\ pc \in {"unloaded", "loaded", "failed"}
    /\ MAX_FORK_WORKERS.tag \in {"unbound", "none", "int"}
    /\ last_call.kind \in {"not_called", "return", "raise"}
    /\ init_call.kind \in {"not_called", "return", "raise"}


(***************************************************************************)
(* Properties.  The environment never changes, so the arguments of the     *)
(* most recent is_daemon_process() call are the current ppid, sid, pid and *)
(* stdout.                                                                 *)
(***************************************************************************)
Called == last_call.kind # "not_called"

Imported == pc # "unloaded"

NotDaemonByAncestry == ppid # INIT_PID /\ sid # pid

\* C1: whenever the parent process id is 1, is_daemon_process returns true,
\* whatever the session id, the process id and the state of standard output.
C1_PpidInitIsDaemon ==
    (Called /\ ppid = INIT_PID) => last_call = Return(TRUE)

\* C2: whenever obtaining the descriptor of standard output or querying its
\* terminal status raises OSError, is_daemon_process returns true and does
\* not raise.
C2_NeverPropagatesOSError ==
    (Called /\ (fileno_raises(stdout) \/ isatty_raises(stdout)))
        => last_call = Return(TRUE)

C4_UnparseableFallsBack ==
    (Imported /\ has_fork /\ init_call = Return(FALSE)
              /\ py_int(environ).exc # "")
        => /\ pc = "loaded"
           /\ MAX_FORK_WORKERS =
                  IF affinity > 0 THEN PyInt(affinity) ELSE PyNone

\* C5: after the import MAX_FORK_WORKERS is exactly 1 whenever the platform
\* has no fork or is_daemon_process returned true, whatever the environment
\* variable holds.
C5_NoForkOrDaemonGivesOne ==
    (Imported /\ (~ has_fork \/ init_call = Return(TRUE)))
        => pc = "loaded" /\ MAX_FORK_WORKERS = PyInt(1)

C5_Witness ==
    /\ pc = "loaded" /\ has_fork /\ init_call = Return(TRUE)
    /\ environ = EnvSet(<<"2">>) /\ affinity = MaxCpus
    /\ MAX_FORK_WORKERS = PyInt(1)

\* C6: after the import MAX_FORK_WORKERS is an integer of at least 1 or
\* None, and it is None only when forking is allowed.
C6_PositiveOrNone ==
    pc = "loaded"
        => /\ \/ MAX_FORK_WORKERS = PyNone
              \/ MAX_FORK_WORKERS.tag = "int" /\ MAX_FORK_WORKERS.n >= 1
           /\ MAX_FORK_WORKERS = PyNone
                  => has_fork /\ init_call = Return(FALSE)

C8_SessionLeaderIsDaemon ==
    (Called /\ ppid # INIT_PID /\ sid = pid) => last_call = Return(TRUE)

\* C9: with fork available, is_daemon_process false and MAX_FORK_WORKERS an
\* integer literal, MAX_FORK_WORKERS after the import is that integer,
\* whatever the affinity count.
C9_EnvOverrideWins ==
    (Imported /\ has_fork /\ init_call = Return(FALSE)
              /\ py_int(environ).exc = "")
        => /\ pc = "loaded"
           /\ MAX_FORK_WORKERS = PyInt(py_int(environ).n)

C9_Witness ==
    /\ pc = "loaded" /\ has_fork /\ init_call = Return(FALSE)
    /\ environ = EnvSet(<<"-", "2">>) /\ affinity = 1
    /\ MAX_FORK_WORKERS = PyInt(0 - 2)

=============================================================================
